---- MODULE Spec2Model ----
(***************************************************************************)
(* Testset generation orchestration of ragas:                             *)
(* src/src/ragas/testset/generator.py, class TestsetGenerator.            *)
(*                                                                         *)
(* Probabilities are Python floats in the source.  They are modelled in   *)
(* fixed point: a weight w stands for the float w / One.  The weights     *)
(* used (0.25, 0.5, 1.0, 0.9, 1.1, 1.0004) give products with test_size   *)
(* that are either exact in binary floating point or far from a rounding  *)
(* boundary, so the exact rational rounding below is the float rounding.  *)
(***************************************************************************)
EXTENDS Integers, Sequences, FiniteSets, TLC

\* ------------------------------------------------------------------ bounds
\* Largest of the small test sizes that are enumerated exhaustively.
MaxTestSize == 3
\* Jobs at submission positions 1..MaxFailPos have a free outcome; later
\* jobs return a row.
MaxFailPos == 2
\* Longest list of strategies handed to adapt / save.
MaxEvolutions == 2

\* ------------------------------------------------- constants of the source
\* The float 1.0 (close_to of check_if_sum_is_close) in fixed point.
One == 10000
\* num_places of check_if_sum_is_close.
NumPlaces == 3
\* RunConfig(max_retries=15, max_wait=90)
DefaultMaxRetries == 15
DefaultMaxWait == 90

None == "None"

\* The three strategy objects of the module: simple, reasoning, multi_context.
Strategies == {"simple", "reasoning", "multi_context"}

\* evolution.__class__.__name__
ClassName(e) ==
    CASE e = "simple" -> "SimpleEvolution"
      [] e = "reasoning" -> "ReasoningEvolution"
      [] e = "multi_context" -> "MultiContextEvolution"

\* isinstance(evolution, ComplexEvolution)
IsComplexEvolution(e) == e \in {"reasoning", "multi_context"}

\* DEFAULT_DISTRIBUTION = {simple: 0.5, reasoning: 0.25, multi_context: 0.25}
\* A distribution is a dict: a sequence of <<strategy, weight>> in mapping
\* order, with distinct keys.
DEFAULT_DISTRIBUTION ==
    << <<"simple", 5000>>, <<"reasoning", 2500>>, <<"multi_context", 2500>> >>

\* The strategies of list(distributions).
KeySet(dist) == {dist[k][1] : k \in DOMAIN dist}

\* list(distributions.values())
Values(dist) == [k \in DOMAIN dist |-> dist[k][2]]

RECURSIVE SumSeq(_)
\* sum(values)
SumSeq(s) == IF s = << >> THEN 0 ELSE Head(s) + SumSeq(Tail(s))

Abs(x) == IF x < 0 THEN 0 - x ELSE x

RECURSIVE Pow10(_)
Pow10(n) == IF n = 0 THEN 1 ELSE 10 * Pow10(n - 1)

\* ragas.utils.check_if_sum_is_close(values, close_to, num_places): the sum
\* of the values is close_to within num_places decimal places.
check_if_sum_is_close(values, close_to, num_places) ==
    Abs(SumSeq(values) - close_to) * Pow10(num_places) <= One

\* Python round(a / b) for b > 0: nearest integer, halves to even.
PyRound(a, b) ==
    LET q == a \div b
        r == a % b
    IN  IF 2 * r < b THEN q
        ELSE IF 2 * r > b THEN q + 1
        ELSE IF q % 2 = 0 THEN q ELSE q + 1

\* round(probability * test_size)
JobCount(probability, test_size) == PyRound(probability * test_size, One)

\* ------------------------------------------------------------------ state
VARIABLES
    args,       \* the arguments the caller passes to generate, fixed per run
    evo,        \* per strategy object: its bound collaborators
    docstore,   \* self.docstore: kind, extractor, run configuration
    call,       \* the last call of a public method, with what it drew
    effects,    \* calls the last call made on collaborators, in order
    submitted,  \* jobs the last generate call gave to exec.submit, in order
    results,    \* what exec.results() returned to the last generate call
    dataset,    \* test_data of the TestDataset the last generate call returned
    error,      \* the exception the last call raised, or None
    prevNames   \* job names of the call before, when that was a generate
                \* call too (with the same arguments, then)

vars == <<args, evo, docstore, call, effects, submitted, results, dataset, error,
          prevNames>>

\* Handles the orchestrator binds (init_evolution).
SelfGeneratorLLM == "self.generator_llm"
SelfDocstore == "self.docstore"
NewQuestionFilter == "QuestionFilter(self.critic_llm)"
NewNodeFilter == "NodeFilter(self.critic_llm)"
NewEvolutionFilter == "EvolutionFilter(self.critic_llm)"
\* A collaborator the caller set on the strategy before handing it over.
Caller == "caller"

\* A strategy as the caller may hand it over.
Unbound ==
    [generator_llm |-> None, docstore |-> None, question_filter |-> None,
     node_filter |-> None, evolution_filter |-> None]
\* Fully configured by the caller.
Preconfigured ==
    [generator_llm |-> Caller, docstore |-> Caller, question_filter |-> Caller,
     node_filter |-> Caller, evolution_filter |-> Caller]
\* Generation model set by the caller, filters left unset.
LLMOnly ==
    [generator_llm |-> Caller, docstore |-> None, question_filter |-> None,
     node_filter |-> None, evolution_filter |-> None]
\* Only the question filter set by the caller.
FilterOnly ==
    [generator_llm |-> None, docstore |-> None, question_filter |-> Caller,
     node_filter |-> None, evolution_filter |-> None]

StrategyProfiles == {Unbound, Preconfigured, LLMOnly, FilterOnly}

\* RunConfig(max_retries=15, max_wait=90)
DefaultRunConfig == <<DefaultMaxRetries, DefaultMaxWait>>
\* A run configuration passed by the caller.
CallerRunConfig == <<3, 10>>

\* The docstores a TestsetGenerator may be constructed with.
InMemoryDocstore == [in_memory |-> TRUE, extractor |-> TRUE, run_config |-> << >>]
NoExtractorDocstore == [in_memory |-> TRUE, extractor |-> FALSE, run_config |-> << >>]
OtherDocstore == [in_memory |-> FALSE, extractor |-> FALSE, run_config |-> << >>]

NoCall == [op |-> None, evolutions |-> << >>, outcomes |-> << >>, filler |-> << >>]

\* ----------------------------------------------------------- init_evolution
\* Faulty variant: the binding without the guard on generator_llm.
init_evolution_unguarded(ev, e) ==
    [generator_llm |-> IF ev.generator_llm = None THEN SelfGeneratorLLM
                       ELSE ev.generator_llm,
     docstore |-> IF ev.docstore = None THEN SelfDocstore ELSE ev.docstore,
     question_filter |->
         IF ev.question_filter = None THEN NewQuestionFilter ELSE ev.question_filter,
     node_filter |->
         IF ev.node_filter = None THEN NewNodeFilter ELSE ev.node_filter,
     evolution_filter |->
         IF IsComplexEvolution(e) /\ ev.evolution_filter = None
         THEN NewEvolutionFilter ELSE ev.evolution_filter]

\* TestsetGenerator.init_evolution(evolution): the strategy after the call.
init_evolution(ev, e) ==
    IF ev.generator_llm = None
    THEN [generator_llm |-> SelfGeneratorLLM,
          docstore |-> IF ev.docstore = None THEN SelfDocstore ELSE ev.docstore,
          question_filter |->
              IF ev.question_filter = None THEN NewQuestionFilter
              ELSE ev.question_filter,
          node_filter |->
              IF ev.node_filter = None THEN NewNodeFilter ELSE ev.node_filter,
          evolution_filter |->
              IF IsComplexEvolution(e) /\ ev.evolution_filter = None
              THEN NewEvolutionFilter ELSE ev.evolution_filter]
    ELSE ev

\* for evolution in evolutions: self.init_evolution(evolution)
InitAll(ev, keys) ==
    [e \in Strategies |-> IF e \in keys THEN init_evolution(ev[e], e) ELSE ev[e]]

\* ------------------------------------------------------------------ generate
NoError == <<None, 0>>

\* Faulty variant: the flag defaulting to False.
RaiseExceptionsDefaultFalse(raise_arg) ==
    IF raise_arg = None THEN "False" ELSE raise_arg

\* raise_exceptions: bool = True; None stands for "argument not passed".
RaiseExceptions(raise_arg) == IF raise_arg = None THEN "True" ELSE raise_arg

\* run_config: RunConfig(max_retries=15, max_wait=90) when None is passed.
RunConfigOf(rc_arg) == IF rc_arg = << >> THEN DefaultRunConfig ELSE rc_arg

\* Faulty variant: no validation.
DistributionValidAlways(dist) == Len(dist) >= 0

\* The validation generate starts with.
DistributionValid(dist) == check_if_sum_is_close(Values(dist), One, NumPlaces)

\* exec.submit(evolution.evolve, current_nodes[i], name=f"{class name}-{i}")
Job(e, i) == [evolution |-> e, node |-> i, name |-> <<ClassName(e), i>>]

RECURSIVE MainPass(_, _, _)
\* The main partition pass over the entries k.. of the distribution:
\* for i in range(round(probability * test_size)) submits current_nodes[i].
\* current_nodes has test_size elements; current_nodes[test_size] raises
\* IndexError, which ends the pass (ok = FALSE).
MainPass(dist, test_size, k) ==
    IF k > Len(dist) THEN [jobs |-> << >>, ok |-> TRUE]
    ELSE LET e == dist[k][1]
             n == JobCount(dist[k][2], test_size)
             m == IF n > test_size THEN test_size ELSE IF n < 0 THEN 0 ELSE n
             mine == [i \in 1..m |-> Job(e, i - 1)]
         IN  IF n > test_size THEN [jobs |-> mine, ok |-> FALSE]
             ELSE LET rest == MainPass(dist, test_size, k + 1)
                  IN  [jobs |-> mine \o rest.jobs, ok |-> rest.ok]

\* Faulty variant: one filler job too many.
FillerCountOffByOne(total_evolutions, test_size) ==
    IF total_evolutions <= test_size THEN test_size - total_evolutions + 1 ELSE 0

\* k of choices(list(distributions), k=test_size - total_evolutions), under
\* the guard total_evolutions <= test_size.
FillerCount(total_evolutions, test_size) ==
    IF total_evolutions <= test_size THEN test_size - total_evolutions ELSE 0

\* The filler pass: one job per drawn strategy, on current_nodes[total],
\* total counting on from the main pass.
FillerPass(filler_evolutions, total_evolutions) ==
    [j \in 1..Len(filler_evolutions) |->
        Job(filler_evolutions[j], total_evolutions + j - 1)]

\* --- Executor (ragas.executor) and is_nan (ragas.utils)
Outcomes == {"row", "empty", "fail"}
NaN == <<"nan", 0>>
\* The row job j returns; rows are told apart by their submission position.
Row(j) == <<"row", j>>
is_nan(r) == r[1] = "nan"

JobOutcome(outcomes, j) == IF j \in DOMAIN outcomes THEN outcomes[j] ELSE "row"

\* exec.results() raises when raise_exceptions is set and a job failed for
\* good.
ExecutorRaises(jobs, outcomes, raise_exceptions) ==
    /\ raise_exceptions = "True"
    /\ \E j \in DOMAIN jobs : JobOutcome(outcomes, j) = "fail"

\* exec.results(): one result per job, in submission order; NaN for a job
\* that failed for good or that produced nothing.
ExecutorResults(jobs, outcomes) ==
    [j \in DOMAIN jobs |-> IF JobOutcome(outcomes, j) = "row" THEN Row(j) ELSE NaN]

NotNaN(r) == ~is_nan(r)

\* Faulty variant: the filter keeping the rows that are NaN.
DropNaNInverted(rows) == SelectSeq(rows, is_nan)

\* test_data_rows = [r for r in test_data_rows if not is_nan(r)]
DropNaN(rows) == SelectSeq(rows, NotNaN)

Names(jobs) == [j \in DOMAIN jobs |-> jobs[j].name]

Min(a, b) == IF a < b THEN a ELSE b

\* The job names of the call before, when it was a generate call that got
\* past validation.
PrevNames ==
    IF call.op = "generate" /\ error[1] # "ValueError"
    THEN [set |-> TRUE, names |-> Names(submitted)]
    ELSE [set |-> FALSE, names |-> << >>]

GenerateCall(outcomes, filler) ==
    [op |-> "generate", evolutions |-> << >>, outcomes |-> outcomes, filler |-> filler]

\* effects of lines 195-200 and 219
SetupEffects(dist) ==
    << <<"docstore.set_run_config", "">> >>
    \o [k \in DOMAIN dist |-> <<"evolution.init", dist[k][1]>>]
    \o << <<"docstore.get_random_nodes", "">> >>

\* generate(test_size, distributions, raise_exceptions, run_config)
Generate(dist, test_size, raise_arg, rc_arg) ==
    /\ prevNames' = PrevNames
    /\ UNCHANGED args
    /\ IF ~DistributionValid(dist)
       THEN /\ error' = <<"ValueError", SumSeq(Values(dist))>>
            /\ call' = GenerateCall(<< >>, << >>)
            /\ effects' = << >>
            /\ submitted' = << >>
            /\ results' = << >>
            /\ dataset' = << >>
            /\ UNCHANGED <<evo, docstore>>
       ELSE LET main == MainPass(dist, test_size, 1)
                total == Len(main.jobs)
            IN  /\ docstore' = [docstore EXCEPT !.run_config = RunConfigOf(rc_arg)]
                /\ evo' = InitAll(evo, KeySet(dist))
                /\ IF ~main.ok
                   THEN /\ error' = <<"IndexError", 0>>
                        /\ call' = GenerateCall(<< >>, << >>)
                        /\ effects' = SetupEffects(dist)
                        /\ submitted' = main.jobs
                        /\ results' = << >>
                        /\ dataset' = << >>
                   ELSE \E filler \in [1..FillerCount(total, test_size) -> KeySet(dist)] :
                        LET jobs == main.jobs \o FillerPass(filler, total)
                        IN  \E outcomes \in [1..Min(Len(jobs), MaxFailPos) -> Outcomes] :
                            /\ call' = GenerateCall(outcomes, filler)
                            /\ effects' = SetupEffects(dist) \o << <<"exec.results", "">> >>
                            /\ submitted' = jobs
                            /\ IF ExecutorRaises(jobs, outcomes, RaiseExceptions(raise_arg))
                               THEN /\ error' = <<"JobError", 0>>
                                    /\ results' = << >>
                                    /\ dataset' = << >>
                               ELSE /\ error' = NoError
                                    /\ results' = ExecutorResults(jobs, outcomes)
                                    /\ dataset' = DropNaN(results')

\* -------------------------------------------------------------- adapt, save
\* The filters evolution.adapt and save need.
FiltersSet(ev, e) ==
    /\ ev.node_filter # None
    /\ ev.question_filter # None
    /\ IsComplexEvolution(e) => ev.evolution_filter # None

\* The two assertions adapt and save start with.
DocstoreReady(ds) == ds.in_memory /\ ds.extractor

RECURSIVE AdaptLoop(_, _, _)
\* The loop of adapt over evolutions[k..]: init_evolution, init, adapt.
\* evolution.adapt asserts that the filters of the strategy are set.
AdaptLoop(ev, evolutions, k) ==
    IF k > Len(evolutions) THEN [evo |-> ev, effects |-> << >>, error |-> NoError]
    ELSE LET e == evolutions[k]
             bound == [ev EXCEPT ![e] = init_evolution(ev[e], e)]
         IN  IF ~FiltersSet(bound[e], e)
             THEN [evo |-> bound, effects |-> << <<"evolution.init", e>> >>,
                   error |-> <<"AssertionError", 0>>]
             ELSE LET rest == AdaptLoop(bound, evolutions, k + 1)
                  IN  [evo |-> rest.evo,
                       effects |-> << <<"evolution.init", e>>, <<"evolution.adapt", e>> >>
                                   \o rest.effects,
                       error |-> rest.error]

RECURSIVE SaveLoop(_, _, _)
\* The loop of save over evolutions[k..]: the three assertions, then
\* evolution.save.
SaveLoop(ev, evolutions, k) ==
    IF k > Len(evolutions) THEN [effects |-> << >>, error |-> NoError]
    ELSE LET e == evolutions[k]
         IN  IF ~FiltersSet(ev[e], e)
             THEN [effects |-> << >>, error |-> <<"AssertionError", 0>>]
             ELSE LET rest == SaveLoop(ev, evolutions, k + 1)
                  IN  [effects |-> << <<"evolution.save", e>> >> \o rest.effects,
                       error |-> rest.error]

ListCall(op, evolutions) ==
    [op |-> op, evolutions |-> evolutions, outcomes |-> << >>, filler |-> << >>]

\* adapt(language, evolutions)
Adapt(evolutions) ==
    /\ call' = ListCall("adapt", evolutions)
    /\ submitted' = << >>
    /\ results' = << >>
    /\ dataset' = << >>
    /\ prevNames' = [set |-> FALSE, names |-> << >>]
    /\ UNCHANGED <<args, docstore>>
    /\ IF ~DocstoreReady(docstore)
       THEN /\ error' = <<"AssertionError", 0>>
            /\ effects' = << >>
            /\ UNCHANGED evo
       ELSE LET loop == AdaptLoop(evo, evolutions, 1)
            IN  /\ error' = loop.error
                /\ effects' = << <<"extractor.adapt", "">> >> \o loop.effects
                /\ evo' = loop.evo

\* save(evolutions)
Save(evolutions) ==
    /\ call' = ListCall("save", evolutions)
    /\ submitted' = << >>
    /\ results' = << >>
    /\ dataset' = << >>
    /\ prevNames' = [set |-> FALSE, names |-> << >>]
    /\ UNCHANGED <<args, docstore, evo>>
    /\ IF ~DocstoreReady(docstore)
       THEN /\ error' = <<"AssertionError", 0>>
            /\ effects' = << >>
       ELSE LET loop == SaveLoop(evo, evolutions, 1)
            IN  /\ error' = loop.error
                /\ effects' = << <<"extractor.save", "">> >> \o loop.effects

\* init_evolution(evolution), called directly
InitEvolution(e) ==
    /\ call' = ListCall("init_evolution", <<e>>)
    /\ evo' = [evo EXCEPT ![e] = init_evolution(evo[e], e)]
    /\ effects' = << >>
    /\ submitted' = << >>
    /\ results' = << >>
    /\ dataset' = << >>
    /\ error' = NoError
    /\ prevNames' = [set |-> FALSE, names |-> << >>]
    /\ UNCHANGED <<args, docstore>>

\* ------------------------------------------------------------------- inputs
\* raise_exceptions: not passed, True, False
RaiseArgs == {None, "True", "False"}
\* run_config: not passed (None), or one of the caller's
RunConfigArgs == {<< >>, CallerRunConfig}

\* Weights: 0.25, 0.5, 0.9, 1.0, 1.0004, 1.1
Weights == {2500, 5000, 9000, One, One + 4, 11000}

\* Lists of distinct strategies of length 1..n
StrategyLists(n) ==
    {l \in UNION {[1..m -> Strategies] : m \in 1..n} :
        \A i, j \in DOMAIN l : i # j => l[i] # l[j]}

\* Distributions over one to three strategies, in every mapping order, whose
\* weights sum to between 0.9 and 1.1.
Distributions ==
    {d \in UNION {[1..m -> Strategies \X Weights] : m \in 1..3} :
        /\ \A i, j \in DOMAIN d : i # j => d[i][1] # d[j][1]
        /\ SumSeq(Values(d)) >= 9000
        /\ SumSeq(Values(d)) <= 11000}

\* Test sizes: the small ones, and the 10 of the three-way example.
TestSizes == (1..MaxTestSize) \cup {10}

\* Test sizes at which a weight of 1.0004 rounds to more jobs than seeds.
LargeTestSizes == {1250, 1251}
LargeDistributions == {d \in Distributions : Len(d) = 1}

\* Inputs of generate when the subject is the binding of strategies.
BindDistributions ==
    {DEFAULT_DISTRIBUTION, << <<"reasoning", 9000>> >>,
     << <<"multi_context", 5000>>, <<"simple", 5000>> >>}

\* --------------------------------------------------------------------- Init
NoPrev == [set |-> FALSE, names |-> << >>]

\* The arguments of generate, drawn from D x S x R x C.
ArgsIn(D, S, R, C) ==
    args \in [distributions : D, test_size : S, raise_exceptions : R, run_config : C]

InitCall ==
    /\ call = NoCall
    /\ effects = << >>
    /\ submitted = << >>
    /\ results = << >>
    /\ dataset = << >>
    /\ error = NoError
    /\ prevNames = NoPrev

\* A generator over a docstore of either kind, handed strategies in any
\* configuration.
Init ==
    /\ ArgsIn(BindDistributions, {1}, {None}, RunConfigArgs)
    /\ evo \in [Strategies -> StrategyProfiles]
    /\ docstore \in {InMemoryDocstore, NoExtractorDocstore, OtherDocstore}
    /\ InitCall

\* A generator as with_openai builds it, handed fresh strategies.
InitFresh ==
    /\ evo = [e \in Strategies |-> Unbound]
    /\ docstore = InMemoryDocstore
    /\ InitCall

GenerateCalled ==
    Generate(args.distributions, args.test_size, args.raise_exceptions,
             args.run_config)

InitEvolutionCalled == \E e \in Strategies : InitEvolution(e)

AdaptCalled == \E evolutions \in StrategyLists(MaxEvolutions) : Adapt(evolutions)

SaveCalled == \E evolutions \in StrategyLists(MaxEvolutions) : Save(evolutions)

Next == GenerateCalled \/ InitEvolutionCalled \/ AdaptCalled \/ SaveCalled

Spec == Init /\ [][Next]_vars

\* Repeated generate calls on fresh strategies, over every distribution and
\* the small test sizes.
InitGen == InitFresh /\ ArgsIn(Distributions, TestSizes, RaiseArgs, {<< >>})

NextGen == GenerateCalled

SpecGen == InitGen /\ [][NextGen]_vars

\* The same over the large test sizes.
InitLarge == InitFresh /\ ArgsIn(LargeDistributions, LargeTestSizes, RaiseArgs, {<< >>})

SpecLarge == InitLarge /\ [][NextGen]_vars

\* ------------------------------------------------------------------- claims
\* The last call was a generate call that reached exec.results().
ResultsCalled == call.op = "generate" /\ error[1] \notin {"ValueError", "IndexError"}

\* Submission positions of the jobs that returned a row.
RowJobs == {j \in DOMAIN submitted : JobOutcome(call.outcomes, j) = "row"}

SomeJobFailed == \E j \in DOMAIN submitted : JobOutcome(call.outcomes, j) = "fail"

\* The sum of the weights is within 1e-3 of 1.0.
SumIsOne(dist) ==
    /\ SumSeq(Values(dist)) >= One - One \div 1000
    /\ SumSeq(Values(dist)) <= One + One \div 1000

\* C1: a generate call with a valid distribution returns at most test_size
\* rows, and exactly test_size rows when every job returned a row.
C1_ResultSize ==
    (call.op = "generate" /\ error = NoError) =>
        /\ Len(dataset) <= args.test_size
        /\ RowJobs = DOMAIN submitted => Len(dataset) = args.test_size

\* C2: every submitted job, main pass and filler pass alike, gets the next
\* unused seed bundle, so that no bundle is handed to two jobs.
C2_BundlesPrivate ==
    call.op = "generate" =>
        /\ \A j \in DOMAIN submitted : submitted[j].node = j - 1
        /\ \A i, j \in DOMAIN submitted :
              i # j => submitted[i].node # submitted[j].node

\* The dataset is made of the rows of the jobs that returned one, in
\* submission order.
DatasetIsRowJobs ==
    /\ Len(dataset) = Cardinality(RowJobs)
    /\ \A j \in RowJobs : dataset[Cardinality({i \in RowJobs : i <= j})] = Row(j)

\* C3 as stated: with the failure-raising flag not passed, a job that
\* exhausts its retries is dropped and generate returns the remaining rows.
C3_DefaultPolicyDrops ==
    (ResultsCalled /\ SomeJobFailed /\ args.raise_exceptions = None) =>
        error = NoError /\ DatasetIsRowJobs

\* C3 amended: a job that exhausts its retries is dropped, and generate
\* returns the remaining rows, when raise_exceptions=False is passed; when
\* the flag is True or is not passed (it defaults to True) the failure is
\* raised to the caller.
C3_FailurePolicy ==
    (ResultsCalled /\ SomeJobFailed) =>
        /\ args.raise_exceptions = "False" => error = NoError /\ DatasetIsRowJobs
        /\ args.raise_exceptions \in {None, "True"} =>
              error[1] = "JobError" /\ dataset = << >>

C3_Witness ==
    /\ ResultsCalled
    /\ SomeJobFailed
    /\ args.raise_exceptions = None
    /\ error[1] = "JobError"

\* C4: with a valid distribution of non-negative weights, every seed-bundle
\* index used in a submission is within 0..test_size-1: no submission
\* indexes the seed list out of bounds.
C4_SeedIndexInBounds ==
    (call.op = "generate" /\ SumIsOne(args.distributions)) =>
        /\ error[1] # "IndexError"
        /\ \A j \in DOMAIN submitted : submitted[j].node \in 0..(args.test_size - 1)

\* C5: a generate call whose weights do not sum to 1.0 raises ValueError
\* with the computed sum, and does nothing else: no job submitted, no seed
\* drawn, no strategy bound or initialised, run configuration unchanged.
C5_InvalidFailsFast ==
    [][(call'.op = "generate" /\ ~SumIsOne(args.distributions)) =>
          /\ error' = <<"ValueError", SumSeq(Values(args.distributions))>>
          /\ effects' = << >>
          /\ submitted' = << >>
          /\ results' = << >>
          /\ evo' = evo
          /\ docstore' = docstore]_vars

C5_Witness ==
    /\ call.op = "generate"
    /\ SumSeq(Values(args.distributions)) = 9000
    /\ error = <<"ValueError", 9000>>
    /\ \E e \in KeySet(args.distributions) : evo[e] = Unbound
    /\ docstore.run_config = << >>

\* A strategy whose filters are unset when op comes to use them: adapt
\* runs init_evolution on the strategy first, save does not.
FilterUnsetFor(op, e) ==
    IF op = "adapt" THEN ~FiltersSet(init_evolution(evo[e], e), e)
    ELSE ~FiltersSet(evo[e], e)

\* C6: adapt or save, called with a list holding a strategy with an unset
\* filter, fails with a precondition error before it touches a collaborator:
\* neither the extractor nor a strategy of the list is adapted or saved.
C6_FailsBeforeTouching ==
    [][(/\ call'.op \in {"adapt", "save"}
        /\ \E k \in DOMAIN call'.evolutions :
              FilterUnsetFor(call'.op, call'.evolutions[k])) =>
          /\ error'[1] = "AssertionError"
          /\ effects' = << >>]_vars

\* Positions of the rows among the results of the executor.
RowResults == {j \in DOMAIN results : results[j][1] = "row"}

\* C7: the dataset holds no sentinel row and is the subsequence of the
\* executor's results made of the rows, in submission order.
C7_DatasetIsSurvivors ==
    (call.op = "generate" /\ error = NoError) =>
        /\ \A k \in DOMAIN dataset : dataset[k][1] # "nan"
        /\ Len(dataset) = Cardinality(RowResults)
        /\ \A j \in RowResults :
              dataset[Cardinality({i \in RowResults : i <= j})] = results[j]

C7_Witness ==
    /\ call.op = "generate"
    /\ error = NoError
    /\ Len(results) >= 3
    /\ results[1][1] = "row"
    /\ results[2][1] = "nan"
    /\ results[3][1] = "row"
    /\ Len(dataset) = Len(results) - 1

NameSet(names) == {names[j] : j \in DOMAIN names}

\* C8 as stated: two generate runs with the same inputs submit the same set
\* of job names, whatever the filler draws.
C8_SameNames ==
    (call.op = "generate" /\ prevNames.set) =>
        NameSet(prevNames.names) = NameSet(Names(submitted))

\* Jobs the main pass submitted in the last generate call.
MainTotal == Len(submitted) - Len(call.filler)

\* C8 amended: two generate runs with the same inputs submit the same number
\* of jobs with the same indices, and the same names in the main pass; the
\* name of a filler job carries the kind of the randomly drawn strategy, so
\* the names are the same only up to the kind of the filler jobs, and are
\* the same when the main pass alone reaches test_size.
C8_NamesUpToFillerKind ==
    (call.op = "generate" /\ prevNames.set) =>
        /\ Len(prevNames.names) = Len(submitted)
        /\ \A j \in DOMAIN submitted :
              /\ prevNames.names[j][2] = submitted[j].name[2]
              /\ j <= MainTotal => prevNames.names[j] = submitted[j].name
        /\ MainTotal >= args.test_size => prevNames.names = Names(submitted)

C8_Witness ==
    /\ call.op = "generate"
    /\ prevNames.set
    /\ Len(call.filler) = 1
    /\ prevNames.names # Names(submitted)
    /\ NameSet(prevNames.names) # NameSet(Names(submitted))

\* round(probability * test_size) of each entry, in mapping order.
Rounded == [k \in DOMAIN args.distributions |->
               PyRound(args.distributions[k][2] * args.test_size, One)]

RECURSIVE Prefix(_, _)
\* Sum of the first k elements.
Prefix(s, k) == IF k = 0 THEN 0 ELSE s[k] + Prefix(s, k - 1)

\* C9: the main pass submits round(probability * test_size) jobs of each
\* strategy, in mapping order; the filler pass then submits
\* test_size - total jobs when total <= test_size and none otherwise, each
\* of a strategy of the distribution.
C9_PartitionCounts ==
    (call.op = "generate" /\ SumIsOne(args.distributions)) =>
        LET total == Prefix(Rounded, Len(Rounded))
            fill == IF total <= args.test_size THEN args.test_size - total ELSE 0
        IN  /\ Len(submitted) = total + fill
            /\ \A k \in DOMAIN Rounded :
                  \A i \in 1..Rounded[k] :
                      /\ Prefix(Rounded, k - 1) + i \in DOMAIN submitted
                      /\ submitted[Prefix(Rounded, k - 1) + i].evolution
                            = args.distributions[k][1]
            /\ \A j \in (total + 1)..(total + fill) :
                  /\ j \in DOMAIN submitted
                  /\ submitted[j].evolution \in KeySet(args.distributions)

\* The kinds of the jobs at positions a..b.
KindsAt(a, b) == {submitted[j].evolution : j \in a..b}

\* C9, the example: test_size 10 and {A: 0.5, B: 0.25, C: 0.25} submit
\* 5 jobs of A, 2 of B, 2 of C and then 1 filler job.
C9_Example ==
    (/\ call.op = "generate"
     /\ args.distributions = DEFAULT_DISTRIBUTION
     /\ args.test_size = 10) =>
        /\ Len(submitted) = 10
        /\ KindsAt(1, 5) = {"simple"}
        /\ KindsAt(6, 7) = {"reasoning"}
        /\ KindsAt(8, 9) = {"multi_context"}
        /\ call.filler \in [1..1 -> Strategies]
        /\ submitted[10].evolution = call.filler[1]

Collaborators ==
    {"generator_llm", "docstore", "question_filter", "node_filter", "evolution_filter"}

\* C10: no operation changes a collaborator of a strategy whose generation
\* model is bound, and none overwrites a collaborator that is set.
C10_BindingIdempotent ==
    [][\A e \in Strategies :
          /\ evo[e].generator_llm # None => evo'[e] = evo[e]
          /\ \A f \in Collaborators : evo[e][f] # None => evo'[e][f] = evo[e][f]]_vars

C10_Witness ==
    /\ call.op = "init_evolution"
    /\ evo[call.evolutions[1]] = LLMOnly

====
